---- MODULE Spec2Model ----
(***************************************************************************)
(* Model of src/src/main.cpp: the motor / solenoid test sketch.            *)
(*                                                                         *)
(* The sketch is one thread of control.  A state of the model is a point   *)
(* where that thread waits (a delay(), an nrf_delay_us() inside myPWM) or  *)
(* samples the button; an action is the straight-line code between two     *)
(* such points.  digitalRead(BUTTON) is the only input: it returns either  *)
(* level unless the button is stuck.                                       *)
(***************************************************************************)
EXTENDS Integers, Sequences, FiniteSets, TLC

VARIABLES
    RPM_TestBench_inPWMmode,  \* main.cpp:55  build switch, never written
    debug_mode,               \* main.cpp:52  build switch, cleared at line 146
    pump_mode,                \* main.cpp:51  0 is swing, 1 is solo
    pause,                    \* main.cpp:56
    Build_up,                 \* main.cpp:79  which table the pointer is bound to
    PWM,                      \* main.cpp:80  which table the pointer is bound to
    i,                        \* main.cpp:152 step cursor of the sequencer loop
    j,                        \* main.cpp:184 jitter offset of the sweep
    counter,                  \* main.cpp:115 press counter
    dbg_i,                    \* main.cpp:123 loop variable of the debug branch
    pc,                       \* position of the thread of control
    pin,                      \* level of each output line
    eng,                      \* the frame of the running / last myPWM call
    button,                   \* environment: "free", "stuckHigh" or "stuckLow"
    pressed,                  \* history: BUTTON read HIGH since the last sweep ended
    everPressed,              \* history: BUTTON read HIGH at least once
    gesture,                  \* history: how the last press was classified
    lastRun                   \* history: index of the last step run, -1 if none

vars == << RPM_TestBench_inPWMmode, debug_mode, pump_mode, pause, Build_up, PWM,
           i, j, counter, dbg_i, pc, pin, eng, button, pressed, everPressed,
           gesture, lastRun >>

(***************************************************************************)
(* Bounds of the model.                                                    *)
(***************************************************************************)
\* Periods of one burst that are observed one by one; the periods after
\* these repeat the same two pin writes.
MaxCycles == 8
\* Largest durationMs drawn for a call of myPWM checked on its own.
MaxDurationMs == 4

(***************************************************************************)
(* Constants of the sketch.                                                *)
(***************************************************************************)
Build_up_debug == 845
PWM_debug == 70
Build_up_swing == << 200, 225, 242, 255, 265, 276, 300, 325, 350,
                     235, 305, 385, 490, 535, 600, 680, 760, 845 >>
PWM_swing == << 40, 46, 50, 56, 62, 68, 72, 78, 84,
                36, 40, 46, 48, 54, 58, 62, 66, 70 >>
Build_up_solo == << 250, 245, 254, 285, 290, 280, 320, 340, 360,
                    260, 392, 522, 682, 630, 725, 555, 710, 870 >>
PWM_solo == << 26, 30, 32, 34, 38, 40, 42, 44, 46,
               26, 28, 30, 32, 36, 38, 40, 42, 46 >>

\* for (int i = 0; i <= 17; i += 1)
LastStep == 17
\* if (counter > 10)
LongPressThreshold == 10
\* for (int i = 0; i <= 10; i++) of the debug branch
DebugLast == 10
\* for (int j = -120; j <= 120; j=j+40)
JitterFirst == -120
JitterLast == 120
JitterStep == 40
\* myPWM(35, (1.5/4*255), 20, MOTOR_PWM)
WarmUpMs == 35
CarrierKhz == 20
\* myPWM(400,60*255/100, 20, SOL_ON_PWM)
DebugSolenoidMs == 400
DebugSolenoidPercent == 60
\* myPWM(10, PWM_debug, 20, MOTOR_PWM)
BenchBurstMs == 10

\* (1.5/4*255) is the double 95.625, converted to the int parameter PWM: 95.
WarmUpDuty == (15 * 255) \div 40

\* Integer division of C: the quotient is truncated toward zero.
TruncDiv(a, b) ==
    IF a >= 0 THEN a \div b ELSE -((-a) \div b)

\* A mutant of DutyByte: the percentage is scaled by 255/10.
DutyByte_Tenth(percent) == TruncDiv(percent * 255, 10)

\* PWM[i]*255/100 : int arithmetic.
DutyByte(percent) == TruncDiv(percent * 255, 100)

\* A mutant of AdjustedBuildUp: the product is rounded to the nearest integer.
AdjustedBuildUp_Rounds(buildUp, jitter) ==
    TruncDiv((buildUp - WarmUpMs) * (1000 + jitter) + 500, 1000)

\* int((Build_up[i]-35)*(1+j/1000.0)): the product is a double and the
\* conversion to int truncates.  For every entry of both tables and every
\* offset of the sweep the double product truncates to the same integer as
\* the exact product (Build_up[i]-35)*(1000+j)/1000.
AdjustedBuildUp(buildUp, jitter) ==
    TruncDiv((buildUp - WarmUpMs) * (1000 + jitter), 1000)

\* What a read of t[idx] can return: the entry, or, outside the 18 entries
\* of the array (undefined behaviour), whatever lies there.
ReadTable(t, idx) ==
    IF idx \in 0 .. (Len(t) - 1) THEN {t[idx + 1]} ELSE {-1000, 0, 1000}

Table(name, which) ==
    IF name = "swing"
    THEN (IF which = "Build_up" THEN Build_up_swing ELSE PWM_swing)
    ELSE (IF which = "Build_up" THEN Build_up_solo ELSE PWM_solo)

(***************************************************************************)
(* myPWM (main.cpp:262-274).                                               *)
(***************************************************************************)
\* int periodUs = 1E3/frequencyKhz;
periodUsOf(frequencyKhz) == TruncDiv(1000, frequencyKhz)

\* A mutant of onTimeOf: the duty is taken as a percentage.
onTimeOf_Percent(periodUs, dutyByte) == TruncDiv(periodUs * dutyByte, 100)

\* int onTime = periodUs * PWM / 255;
onTimeOf(periodUs, dutyByte) == TruncDiv(periodUs * dutyByte, 255)

\* int offTime = periodUs - onTime;
offTimeOf(periodUs, onTime) == periodUs - onTime

\* A mutant of cyclesOf: the cycle count rounded up instead of truncated.
cyclesOf_RoundsUp(durationMs, periodUs) ==
    TruncDiv(durationMs * 1000 + periodUs - 1, periodUs)

\* int cycles = durationMs*1E3 / periodUs;  (a double quotient of two exact
\* integers, truncated by the conversion to int)
cyclesOf(durationMs, periodUs) == TruncDiv(durationMs * 1000, periodUs)

\* The frame of a call myPWM(durationMs, PWM, frequencyKhz, pin) before the
\* first iteration of its loop; ret is where the caller continues.
Call(durationMs, dutyByte, frequencyKhz, pinName, ret) ==
    LET p == periodUsOf(frequencyKhz)
        on == onTimeOf(p, dutyByte)
    IN  [ durationMs |-> durationMs, dutyByte |-> dutyByte,
          frequencyKhz |-> frequencyKhz, pinName |-> pinName,
          periodUs |-> p, onTime |-> on, offTime |-> offTimeOf(p, on),
          cycles |-> cyclesOf(durationMs, p),
          k |-> 0, phase |-> "loop", ret |-> ret,
          nHigh |-> 0, nLow |-> 0, hiUs |-> 0, loUs |-> 0 ]

NoCall ==
    [ durationMs |-> 0, dutyByte |-> 0, frequencyKhz |-> CarrierKhz,
      pinName |-> "MOTOR_PWM", periodUs |-> 0, onTime |-> 0, offTime |-> 0,
      cycles |-> 0, k |-> 0, phase |-> "idle", ret |-> "none",
      nHigh |-> 0, nLow |-> 0, hiUs |-> 0, loUs |-> 0 ]

\* for (int i = 0; i < cycles; i++)
LoopRuns(k, cycles) == k < cycles /\ k < MaxCycles

program == << RPM_TestBench_inPWMmode, debug_mode, pump_mode, pause, Build_up,
              PWM, i, j, counter, dbg_i >>
history == << button, pressed, everPressed, gesture, lastRun >>

\* digitalWrite(pin, HIGH); nrf_delay_us(onTime);
PWMHigh ==
    /\ pc = "pwm"
    /\ eng.phase = "loop"
    /\ LoopRuns(eng.k, eng.cycles)
    /\ pin' = [pin EXCEPT ![eng.pinName] = "HIGH"]
    /\ eng' = [eng EXCEPT !.phase = "on", !.nHigh = @ + 1,
                          !.hiUs = @ + eng.onTime]
    /\ UNCHANGED << pc, program, history >>

\* digitalWrite(pin, LOW); nrf_delay_us(offTime); i++
PWMLow ==
    /\ pc = "pwm"
    /\ eng.phase = "on"
    /\ pin' = [pin EXCEPT ![eng.pinName] = "LOW"]
    /\ eng' = [eng EXCEPT !.phase = "loop", !.nLow = @ + 1,
                          !.loUs = @ + eng.offTime, !.k = @ + 1]
    /\ UNCHANGED << pc, program, history >>

\* return 1;
PWMReturn ==
    /\ pc = "pwm"
    /\ eng.phase = "loop"
    /\ ~LoopRuns(eng.k, eng.cycles)
    /\ pc' = eng.ret
    /\ eng' = [eng EXCEPT !.phase = "returned"]
    /\ UNCHANGED << pin, program, history >>

(***************************************************************************)
(* myPWM on its own: one call per behaviour, its arguments drawn from the  *)
(* engine's input contract.                                                *)
(***************************************************************************)
Frequencies == {1, 2, 3, 4, 6, 7, 8, CarrierKhz, 1000}
Duties == 0 .. 255

AllLow == [ MOTOR_PWM |-> "LOW", SOL_ON_EN |-> "LOW", SOL_ON_PWM |-> "LOW" ]

InitPWM ==
    /\ RPM_TestBench_inPWMmode = 1
    /\ debug_mode = 1
    /\ pump_mode = 1
    /\ pause = 0
    /\ Build_up = "swing"
    /\ PWM = "swing"
    /\ i = 0
    /\ j = 0
    /\ counter = 0
    /\ dbg_i = 0
    /\ pc = "pwm"
    /\ pin = AllLow
    /\ \E d \in 0 .. MaxDurationMs, u \in Duties, f \in Frequencies :
          /\ cyclesOf(d, periodUsOf(f)) <= MaxCycles
          /\ eng = Call(d, u, f, "MOTOR_PWM", "done")
    /\ button = "free"
    /\ pressed = FALSE
    /\ everPressed = FALSE
    /\ gesture = "none"
    /\ lastRun = -1

NextPWM ==
    \/ PWMHigh
    \/ PWMLow
    \/ PWMReturn

SpecPWM == InitPWM /\ [][NextPWM]_vars

(***************************************************************************)
(* The sketch: globals (main.cpp:51-80), setup() and loop().               *)
(***************************************************************************)
\* RPM_TestBench_inPWMmode and debug_mode are the sketch's build switches:
\* the source ships with both set to 1, and the sequencer and the debug
\* branch of loop() run only in a build where RPM_TestBench_inPWMmode is 0.
\* Every other global starts with the value the source gives it.
Init ==
    /\ RPM_TestBench_inPWMmode \in {0, 1}
    /\ debug_mode \in {0, 1}
    /\ pump_mode = 1
    /\ pause = 0
    /\ Build_up = "swing"
    /\ PWM = "swing"
    /\ i = 0
    /\ j = 0
    /\ counter = 0
    /\ dbg_i = 0
    /\ pc = "boot"
    /\ pin = AllLow
    /\ eng = NoCall
    /\ button = "free"
    /\ pressed = FALSE
    /\ everPressed = FALSE
    /\ gesture = "none"
    /\ lastRun = -1

\* The levels digitalRead(BUTTON) can return.
Reads ==
    IF button = "stuckHigh" THEN {"HIGH"}
    ELSE IF button = "stuckLow" THEN {"LOW"}
    ELSE {"LOW", "HIGH"}

\* The button fails: from now on every read returns the same level.
ButtonSticks(level) ==
    /\ button = "free"
    /\ button' = level
    /\ UNCHANGED << program, pc, pin, eng, pressed, everPressed, gesture, lastRun >>

\* setup(): the pins are configured, no level is written.
Setup ==
    /\ pc = "boot"
    /\ pc' = "loop"
    /\ UNCHANGED << program, pin, eng, history >>

\* loop(): delay(1000); int counter=0; int j=0; delay(10); while(1)
LoopEntry ==
    /\ pc = "loop"
    /\ counter' = 0
    /\ j' = 0
    /\ pc' = "top"
    /\ UNCHANGED << RPM_TestBench_inPWMmode, debug_mode, pump_mode, pause,
                    Build_up, PWM, i, dbg_i, pin, eng, history >>

SolenoidLow == [pin EXCEPT !["SOL_ON_EN"] = "LOW", !["SOL_ON_PWM"] = "LOW"]

(***************************************************************************)
(* The debug branch (main.cpp:120-149).                                    *)
(***************************************************************************)
\* if (debug_mode == 1 and RPM_TestBench_inPWMmode == 0)
\*   digitalWrite(SOL_ON_EN, HIGH); for (int i = 0; ...) { delay(100);
TopDebug ==
    /\ pc = "top"
    /\ debug_mode = 1 /\ RPM_TestBench_inPWMmode = 0
    /\ pin' = [pin EXCEPT !["SOL_ON_EN"] = "HIGH"]
    /\ dbg_i' = 0
    /\ pc' = "dbg_delay"
    /\ UNCHANGED << RPM_TestBench_inPWMmode, debug_mode, pump_mode, pause,
                    Build_up, PWM, i, j, counter, eng, history >>

\* A mutant of DebugWarmUp: the solenoid lines are not lowered first.
DebugWarmUp_KeepsEnable ==
    /\ pc = "dbg_delay"
    /\ pin' = pin
    /\ eng' = Call(WarmUpMs, WarmUpDuty, CarrierKhz, "MOTOR_PWM", "dbg_buildup")
    /\ pc' = "pwm"
    /\ UNCHANGED << program, history >>

\* both solenoid lines LOW; myPWM(35, (1.5/4*255), 20, MOTOR_PWM);
DebugWarmUp ==
    /\ pc = "dbg_delay"
    /\ pin' = SolenoidLow
    /\ eng' = Call(WarmUpMs, WarmUpDuty, CarrierKhz, "MOTOR_PWM", "dbg_buildup")
    /\ pc' = "pwm"
    /\ UNCHANGED << program, history >>

\* myPWM(int((Build_up_debug-35)), PWM_debug*255/100, 20, MOTOR_PWM); delay(50);
DebugBuildUp ==
    /\ pc = "dbg_buildup"
    /\ eng' = Call(Build_up_debug - WarmUpMs, DutyByte(PWM_debug), CarrierKhz,
                   "MOTOR_PWM", "dbg_gap")
    /\ pc' = "pwm"
    /\ UNCHANGED << program, pin, history >>

\* digitalWrite(SOL_ON_EN, HIGH); myPWM(400,60*255/100, 20, SOL_ON_PWM);
DebugSolenoid ==
    /\ pc = "dbg_gap"
    /\ pin' = [pin EXCEPT !["SOL_ON_EN"] = "HIGH"]
    /\ eng' = Call(DebugSolenoidMs, DutyByte(DebugSolenoidPercent), CarrierKhz,
                   "SOL_ON_PWM", "dbg_release")
    /\ pc' = "pwm"
    /\ UNCHANGED << program, history >>

\* both solenoid lines LOW; i++; after the last round: debug_mode = 0 and
\* both solenoid lines LOW again.
DebugRelease ==
    /\ pc = "dbg_release"
    /\ pin' = SolenoidLow
    /\ dbg_i' = dbg_i + 1
    /\ IF dbg_i + 1 <= DebugLast
       THEN pc' = "dbg_delay" /\ debug_mode' = debug_mode
       ELSE pc' = "top" /\ debug_mode' = 0
    /\ UNCHANGED << RPM_TestBench_inPWMmode, pump_mode, pause, Build_up, PWM,
                    i, j, counter, eng, history >>

(***************************************************************************)
(* The sequencer branch (main.cpp:150-195).                                *)
(***************************************************************************)
\* A mutant of TopSequencer: the step loop starts at 1.
TopSequencer_FromOne ==
    /\ pc = "top"
    /\ ~(debug_mode = 1 /\ RPM_TestBench_inPWMmode = 0)
    /\ RPM_TestBench_inPWMmode = 0
    /\ i' = 1
    /\ pc' = "await"
    /\ UNCHANGED << RPM_TestBench_inPWMmode, debug_mode, pump_mode, pause,
                    Build_up, PWM, j, counter, dbg_i, pin, eng, history >>

\* else if(RPM_TestBench_inPWMmode == 0) for(int i = 0; i <= 17; i += 1)
TopSequencer ==
    /\ pc = "top"
    /\ ~(debug_mode = 1 /\ RPM_TestBench_inPWMmode = 0)
    /\ RPM_TestBench_inPWMmode = 0
    /\ i' = 0
    /\ pc' = "await"
    /\ UNCHANGED << RPM_TestBench_inPWMmode, debug_mode, pump_mode, pause,
                    Build_up, PWM, j, counter, dbg_i, pin, eng, history >>

\* while(digitalRead(BUTTON) == LOW) { delay(10); }
AwaitPressLow ==
    /\ pc = "await"
    /\ "LOW" \in Reads
    /\ UNCHANGED vars

\* A mutant of AwaitPressHigh: the waiting loop ends on a read of LOW.
AwaitPressHigh_OnLow ==
    /\ pc = "await"
    /\ "LOW" \in Reads
    /\ counter' = 0
    /\ pc' = "measure"
    /\ pressed' = FALSE
    /\ everPressed' = everPressed
    /\ UNCHANGED << RPM_TestBench_inPWMmode, debug_mode, pump_mode, pause,
                    Build_up, PWM, i, j, dbg_i, pin, eng, button, gesture, lastRun >>

\* the loop above ends on a read of HIGH; counter=0;
AwaitPressHigh ==
    /\ pc = "await"
    /\ "HIGH" \in Reads
    /\ counter' = 0
    /\ pc' = "measure"
    /\ pressed' = TRUE
    /\ everPressed' = TRUE
    /\ UNCHANGED << RPM_TestBench_inPWMmode, debug_mode, pump_mode, pause,
                    Build_up, PWM, i, j, dbg_i, pin, eng, button, gesture, lastRun >>

\* A mutant of Toggled: the profile can only be switched one way.
Toggled_OneWay(mode) == IF mode = 0 THEN 1 ELSE 1

\* if(pump_mode == 0) { pump_mode = 1; } else { pump_mode = 0; }
Toggled(mode) == IF mode = 0 THEN 1 ELSE 0

\* A mutant of TablesFor: the second pointer is bound to the wrong table.
TablesFor_Mixed(mode) ==
    IF mode = 0 THEN [ Build_up |-> "swing", PWM |-> "swing" ]
                ELSE [ Build_up |-> "solo", PWM |-> "swing" ]

\* if (pump_mode == 0) { Build_up = Build_up_swing; PWM = PWM_swing; }
\* else { Build_up = Build_up_solo; PWM = PWM_solo; }
TablesFor(mode) ==
    IF mode = 0 THEN [ Build_up |-> "swing", PWM |-> "swing" ]
                ELSE [ Build_up |-> "solo", PWM |-> "solo" ]

\* A mutant of IsLongPress: the comparison is not strict.
IsLongPress_AtThreshold(c) == c >= LongPressThreshold

\* if (counter > 10)
IsLongPress(c) == c > LongPressThreshold

\* A mutant of MoreSteps: the loop runs one step past the tables.
MoreSteps_Loose(n) == n <= LastStep + 1

\* A mutant of MoreSteps: the last step is left out.
MoreSteps_Strict(n) == n < LastStep

\* for(int i = 0; i <= 17; i += 1)
MoreSteps(n) == n <= LastStep

\* while(digitalRead(BUTTON) == HIGH) { delay(100); counter+=1;
\*   if (counter > 10) is false: poll again
MeasurePoll ==
    /\ pc = "measure"
    /\ "HIGH" \in Reads
    /\ ~IsLongPress(counter + 1)
    /\ counter' = counter + 1
    /\ UNCHANGED << RPM_TestBench_inPWMmode, debug_mode, pump_mode, pause,
                    Build_up, PWM, i, j, dbg_i, pc, pin, eng, history >>

\* the read is HIGH, delay(100); counter+=1; counter > 10: the profile is
\* toggled, i=0; break; then the tables are bound and delay(500) starts.
LongPress ==
    /\ pc = "measure"
    /\ "HIGH" \in Reads
    /\ IsLongPress(counter + 1)
    /\ counter' = counter + 1
    /\ pump_mode' = Toggled(pump_mode)
    /\ i' = 0
    /\ Build_up' = TablesFor(pump_mode').Build_up
    /\ PWM' = TablesFor(pump_mode').PWM
    /\ gesture' = "long"
    /\ pc' = "settle"
    /\ UNCHANGED << RPM_TestBench_inPWMmode, debug_mode, pause, j, dbg_i, pin,
                    eng, button, pressed, everPressed, lastRun >>

\* A mutant of ShortPress: the tables are bound on a long-press only.
ShortPress_NoBind ==
    /\ pc = "measure"
    /\ "LOW" \in Reads
    /\ gesture' = "short"
    /\ pc' = "settle"
    /\ UNCHANGED << program, pin, eng, button, pressed, everPressed, lastRun >>

\* the measuring loop ends on a read of LOW; the tables are bound and
\* delay(500) starts.
ShortPress ==
    /\ pc = "measure"
    /\ "LOW" \in Reads
    /\ Build_up' = TablesFor(pump_mode).Build_up
    /\ PWM' = TablesFor(pump_mode).PWM
    /\ gesture' = "short"
    /\ pc' = "settle"
    /\ UNCHANGED << RPM_TestBench_inPWMmode, debug_mode, pump_mode, pause, i, j,
                    counter, dbg_i, pin, eng, button, pressed, everPressed, lastRun >>

WarmUp(ret) == Call(WarmUpMs, WarmUpDuty, CarrierKhz, "MOTOR_PWM", ret)

\* both solenoid lines LOW; for (int j = -120; ...) myPWM(35, ...)
SweepStart ==
    /\ pc = "settle"
    /\ pin' = SolenoidLow
    /\ j' = JitterFirst
    /\ lastRun' = i
    /\ eng' = WarmUp("buildup")
    /\ pc' = "pwm"
    /\ UNCHANGED << RPM_TestBench_inPWMmode, debug_mode, pump_mode, pause,
                    Build_up, PWM, i, counter, dbg_i, button, pressed,
                    everPressed, gesture >>

\* myPWM(int((Build_up[i]-35)*(1+j/1000.0)), PWM[i]*255/100, 20, MOTOR_PWM);
\* delay(50);
BuildUpBurst ==
    /\ pc = "buildup"
    /\ \E b \in ReadTable(Table(Build_up, "Build_up"), i),
          p \in ReadTable(Table(PWM, "PWM"), i) :
          eng' = Call(AdjustedBuildUp(b, j), DutyByte(p), CarrierKhz,
                      "MOTOR_PWM", "gap")
    /\ pc' = "pwm"
    /\ UNCHANGED << program, pin, history >>

\* A mutant of SolenoidOn: the button is sampled in the sweep and a read of
\* HIGH toggles the profile.
SolenoidOn_TogglesOnPress ==
    /\ pc = "gap"
    /\ pin' = [pin EXCEPT !["SOL_ON_EN"] = "HIGH", !["SOL_ON_PWM"] = "HIGH"]
    /\ pc' = "dwell"
    /\ pump_mode' = IF "HIGH" \in Reads THEN Toggled(pump_mode) ELSE pump_mode
    /\ UNCHANGED << RPM_TestBench_inPWMmode, debug_mode, pause, Build_up, PWM,
                    i, j, counter, dbg_i, eng, history >>

\* A mutant of SolenoidOn: only the enable line is raised.
SolenoidOn_EnableOnly ==
    /\ pc = "gap"
    /\ pin' = [pin EXCEPT !["SOL_ON_EN"] = "HIGH"]
    /\ pc' = "dwell"
    /\ UNCHANGED << program, eng, history >>

\* digitalWrite(SOL_ON_EN, HIGH); digitalWrite(SOL_ON_PWM, HIGH); delay(300);
SolenoidOn ==
    /\ pc = "gap"
    /\ pin' = [pin EXCEPT !["SOL_ON_EN"] = "HIGH", !["SOL_ON_PWM"] = "HIGH"]
    /\ pc' = "dwell"
    /\ UNCHANGED << program, eng, history >>

\* A mutant of SweepNext: the later rounds go without their warm-up burst.
SweepNext_SkipsWarmUp ==
    /\ pc = "dwell"
    /\ j + JitterStep <= JitterLast
    /\ pin' = SolenoidLow
    /\ j' = j + JitterStep
    /\ eng' = eng
    /\ pc' = "buildup"
    /\ UNCHANGED << RPM_TestBench_inPWMmode, debug_mode, pump_mode, pause,
                    Build_up, PWM, i, counter, dbg_i, history >>

\* both solenoid lines LOW; j=j+40; j <= 120: the next round of the sweep.
SweepNext ==
    /\ pc = "dwell"
    /\ j + JitterStep <= JitterLast
    /\ pin' = SolenoidLow
    /\ j' = j + JitterStep
    /\ eng' = WarmUp("buildup")
    /\ pc' = "pwm"
    /\ UNCHANGED << RPM_TestBench_inPWMmode, debug_mode, pump_mode, pause,
                    Build_up, PWM, i, counter, dbg_i, history >>

\* A mutant of StepDone: the next step is run without waiting for a press.
StepDone_SkipsAwait ==
    /\ pc = "dwell"
    /\ ~(j + JitterStep <= JitterLast)
    /\ pin' = SolenoidLow
    /\ j' = j + JitterStep
    /\ i' = i + 1
    /\ pc' = IF MoreSteps(i + 1) THEN "settle" ELSE "top"
    /\ pressed' = FALSE
    /\ UNCHANGED << RPM_TestBench_inPWMmode, debug_mode, pump_mode, pause,
                    Build_up, PWM, counter, dbg_i, eng, button, everPressed,
                    gesture, lastRun >>

\* both solenoid lines LOW; j=j+40; j > 120: the sweep is over; i += 1;
\* i <= 17: the next step waits for its press, else the for loop ends and
\* while(1) takes its next turn.
StepDone ==
    /\ pc = "dwell"
    /\ ~(j + JitterStep <= JitterLast)
    /\ pin' = SolenoidLow
    /\ j' = j + JitterStep
    /\ i' = i + 1
    /\ pc' = IF MoreSteps(i + 1) THEN "await" ELSE "top"
    /\ pressed' = FALSE
    /\ UNCHANGED << RPM_TestBench_inPWMmode, debug_mode, pump_mode, pause,
                    Build_up, PWM, counter, dbg_i, eng, button, everPressed,
                    gesture, lastRun >>

(***************************************************************************)
(* The PWM test-bench branch (main.cpp:197-218).                           *)
(***************************************************************************)
\* if (pause == 0) myPWM(10, PWM_debug, 20, MOTOR_PWM);
\* else { digitalWrite(MOTOR_PWM, LOW); delay(10); }
BenchDrive(p) ==
    IF p = 0
    THEN /\ eng' = Call(BenchBurstMs, PWM_debug, CarrierKhz, "MOTOR_PWM", "top")
         /\ pc' = "pwm"
         /\ pin' = pin
    ELSE /\ pin' = [pin EXCEPT !["MOTOR_PWM"] = "LOW"]
         /\ pc' = "top"
         /\ eng' = eng

\* else if (RPM_TestBench_inPWMmode == 1): digitalRead(BUTTON) is LOW
BenchIdle ==
    /\ pc = "top"
    /\ RPM_TestBench_inPWMmode # 0 /\ RPM_TestBench_inPWMmode = 1
    /\ "LOW" \in Reads
    /\ BenchDrive(pause)
    /\ UNCHANGED << program, history >>

\* digitalRead(BUTTON) is HIGH: if (pause==1) pause=0; else pause=1;
BenchPress ==
    /\ pc = "top"
    /\ RPM_TestBench_inPWMmode # 0 /\ RPM_TestBench_inPWMmode = 1
    /\ "HIGH" \in Reads
    /\ pause' = IF pause = 1 THEN 0 ELSE 1
    /\ pc' = "bench_hold"
    /\ pressed' = TRUE
    /\ everPressed' = TRUE
    /\ UNCHANGED << RPM_TestBench_inPWMmode, debug_mode, pump_mode, Build_up,
                    PWM, i, j, counter, dbg_i, pin, eng, button, gesture, lastRun >>

\* A mutant of BenchHold: pause is toggled again on every poll of a held
\* button.
BenchHold_Retoggles ==
    /\ pc = "bench_hold"
    /\ "HIGH" \in Reads
    /\ pause' = IF pause = 1 THEN 0 ELSE 1
    /\ UNCHANGED << RPM_TestBench_inPWMmode, debug_mode, pump_mode, Build_up,
                    PWM, i, j, counter, dbg_i, pc, pin, eng, history >>

\* while(digitalRead(BUTTON) == HIGH) { delay(10); }
BenchHold ==
    /\ pc = "bench_hold"
    /\ "HIGH" \in Reads
    /\ UNCHANGED vars

\* the loop above ends on a read of LOW
BenchRelease ==
    /\ pc = "bench_hold"
    /\ "LOW" \in Reads
    /\ BenchDrive(pause)
    /\ UNCHANGED << program, history >>

Next ==
    \/ Setup
    \/ LoopEntry
    \/ TopDebug
    \/ DebugWarmUp
    \/ DebugBuildUp
    \/ DebugSolenoid
    \/ DebugRelease
    \/ TopSequencer
    \/ AwaitPressLow
    \/ AwaitPressHigh
    \/ MeasurePoll
    \/ LongPress
    \/ ShortPress
    \/ SweepStart
    \/ BuildUpBurst
    \/ SolenoidOn
    \/ SweepNext
    \/ StepDone
    \/ BenchIdle
    \/ BenchPress
    \/ BenchHold
    \/ BenchRelease
    \/ PWMHigh
    \/ PWMLow
    \/ PWMReturn
    \/ \E level \in {"stuckHigh", "stuckLow"} : ButtonSticks(level)

Spec == Init /\ [][Next]_vars

(***************************************************************************)
(* Predicates used by the properties.                                      *)
(***************************************************************************)
\* The thread is in the two button loops that precede a step.
InGate == pc \in {"await", "measure"}

\* The thread is between the gesture and the end of a step's sweep.
InSweep ==
    \/ pc \in {"settle", "buildup", "gap", "dwell"}
    \/ pc = "pwm" /\ eng.ret \in {"buildup", "gap"}

\* The thread is inside the debug branch.
InDebug ==
    \/ pc \in {"dbg_delay", "dbg_buildup", "dbg_gap", "dbg_release"}
    \/ pc = "pwm" /\ eng.ret \in {"dbg_buildup", "dbg_gap", "dbg_release"}

\* A build of the sequencer in which the debug branch is not run first.
SequencerBuild ==
    RPM_TestBench_inPWMmode = 0 /\ debug_mode = 0 /\ dbg_i = 0

\* The globals as the source ships them.
ShippedBuild ==
    RPM_TestBench_inPWMmode = 1 /\ debug_mode = 1

\* The measuring loop is left in this step.
GestureTaken == pc = "measure" /\ pc' = "settle"

\* A step starts in this step: its first warm-up burst is issued.
StepStarts == pc = "settle" /\ pc' = "pwm"

ProfileOf(mode) == IF mode = 0 THEN "swing" ELSE "solo"

(***************************************************************************)
(* Properties.                                                             *)
(***************************************************************************)
\* C1: a press is a long-press exactly when the press counter exceeds 10,
\* that is after 11 consecutive polls of the measuring loop that read HIGH;
\* a press released after at most 10 polls is a short-press and leaves
\* pump_mode as it was.
C1_LongPressIffCounterExceedsTen ==
    [][ GestureTaken =>
          /\ (gesture' = "long") <=> (counter' > 10)
          /\ gesture' = "long" => counter' = 11 /\ pump_mode' # pump_mode
          /\ counter' <= 10 => gesture' = "short" /\ pump_mode' = pump_mode
      ]_vars

\* C1 witness: a press released after exactly 10 polls was taken as short.
C1_Witness ==
    pc = "settle" /\ gesture = "short" /\ counter = 10

\* C2: every long-press toggles pump_mode between 0 and 1, resets the step
\* cursor to 0 and binds the tables of the new profile, and the step that
\* is run next is step 0 of that profile.
C2_LongPressTogglesAndRestarts ==
    [][ /\ (GestureTaken /\ counter' > LongPressThreshold) =>
              /\ pump_mode \in {0, 1}
              /\ pump_mode' = 1 - pump_mode
              /\ i' = 0
              /\ Build_up' = ProfileOf(pump_mode')
              /\ PWM' = ProfileOf(pump_mode')
        /\ (StepStarts /\ gesture = "long") =>
              /\ lastRun' = 0
              /\ Build_up' = ProfileOf(pump_mode')
              /\ PWM' = ProfileOf(pump_mode')
      ]_vars

\* C2 witness: a second long-press, taken after step 5 was run, has put the
\* sketch back on its first profile.
C2_Witness ==
    pc = "settle" /\ gesture = "long" /\ pump_mode = 1 /\ lastRun = 5 /\ i = 0

\* C3: a step run on a short-press is the successor of the step run before
\* it, 0 at the start and 0 again after 17, so 18 short-presses run the
\* steps 0..17 once each in index order.
C3_ShortPressesWalkAllSteps ==
    [][ (StepStarts /\ gesture = "short") =>
          /\ i = (lastRun + 1) % 18
          /\ lastRun' = i
      ]_vars

\* C3 witness: step 0 is about to be run on a short-press after step 17.
C3_Witness ==
    pc = "settle" /\ gesture = "short" /\ i = 0 /\ lastRun = 17

\* C4 (as claimed): a short-press leaves pump_mode and both table bindings
\* as they were, in every reachable state.
C4_ShortPressKeepsBindings ==
    [][ (GestureTaken /\ ~(counter' > LongPressThreshold)) =>
          /\ pump_mode' = pump_mode
          /\ Build_up' = Build_up
          /\ PWM' = PWM
      ]_vars

\* C5 (as claimed): once the button is stuck at HIGH the thread never
\* leaves the two button loops, so no step is run.
C5_StuckPressedBlocks ==
    [][ (button = "stuckHigh" /\ InGate) => InGate' ]_vars

\* C5 (amended): a button stuck at HIGH is taken as a long-press each time
\* the counter passes 10, and the thread leaves the button loops only to
\* run step 0 with the profile toggled; it is a button stuck at LOW that
\* holds the thread in the waiting loop, with no line written.
C5_StuckButton ==
    [][ /\ (button = "stuckHigh" /\ InGate) =>
              \/ InGate'
              \/ pc' = "settle" /\ i' = 0 /\ pump_mode' # pump_mode
        /\ (button = "stuckLow" /\ pc = "await") =>
              pc' = "await" /\ pin' = pin
      ]_vars

\* C5 witness: with the button stuck at HIGH step 0 is being run again.
C5_Witness ==
    button = "stuckHigh" /\ pc = "dwell" /\ gesture = "long" /\ lastRun = 0

\* C6: while a step is run the button has been read HIGH since the sweep
\* before it ended, and in a sequencer build no line is HIGH before the
\* button has been read HIGH.
C6_NoStepWithoutPress ==
    /\ InSweep => pressed
    /\ (SequencerBuild /\ ~everPressed) => pin = AllLow

\* C6 witness: the second step of a run is in its sweep.
C6_Witness ==
    pc = "dwell" /\ lastRun = 1 /\ pressed

\* C7 (as claimed): with the globals as shipped the thread waits in
\* AwaitPress with cursor 0, and no burst is issued before a press.
C7_ShippedStartsInAwaitPress ==
    (ShippedBuild /\ ~everPressed) =>
        /\ pc \in {"boot", "loop", "top", "await"}
        /\ i = 0
        /\ eng.phase = "idle"

\* C7 (amended): in a sequencer build (RPM_TestBench_inPWMmode = 0 and
\* debug_mode = 0) the thread waits in AwaitPress with cursor 0 and profile
\* 1 and no burst is issued before a press; with the globals as shipped
\* the thread never enters the sequencer.
C7_SequencerStartsInAwaitPress ==
    /\ (SequencerBuild /\ ~everPressed) =>
          /\ pc \in {"boot", "loop", "top", "await"}
          /\ i = 0
          /\ pump_mode = 1
          /\ eng.phase = "idle"
    /\ ShippedBuild => ~InGate /\ ~InSweep

\* C7 witness: a sequencer build waits for its first press.
C7_Witness ==
    SequencerBuild /\ pc = "await" /\ ~everPressed

\* C8: Build_up and PWM are bound to tables of the same profile.
C8_TablesOfOneProfile ==
    /\ Build_up \in {"swing", "solo"}
    /\ PWM = Build_up

\* C8 witness: a step reads its parameters after two long-presses.
C8_Witness ==
    pc = "buildup" /\ gesture = "long" /\ pump_mode = 1 /\ Build_up = "solo"

\* C9 (as claimed): wherever the thread waits, SOL_ON_EN and SOL_ON_PWM have
\* the same level.
C9_SolenoidLinesPaired ==
    pin.SOL_ON_EN = pin.SOL_ON_PWM

\* C9 (amended): outside the debug branch the two solenoid lines have the
\* same level wherever the thread waits; inside the debug branch SOL_ON_EN
\* is also driven on its own, and SOL_ON_PWM is HIGH only under it.
C9_SolenoidLinesPairedInSequencer ==
    /\ ~InDebug => pin.SOL_ON_EN = pin.SOL_ON_PWM
    /\ (InDebug /\ pin.SOL_ON_PWM = "HIGH") => pin.SOL_ON_EN = "HIGH"

\* C9 witness: both lines are HIGH during the dwell of a step.
C9_Witness ==
    pc = "dwell" /\ pin.SOL_ON_EN = "HIGH" /\ pin.SOL_ON_PWM = "HIGH"

\* C10: a call of myPWM within the input contract writes HIGH then LOW
\* exactly floor(durationMs*1000 / floor(1000/frequencyKhz)) times, each
\* HIGH lasting onTime = floor(periodUs*dutyByte/255) microseconds, with
\* 255*onTime <= periodUs*dutyByte < 255*(onTime+1).
C10_CyclesAndOnTime ==
    LET p == 1000 \div eng.frequencyKhz
        c == (eng.durationMs * 1000) \div p
        on == (p * eng.dutyByte) \div 255
    IN  /\ eng.phase = "loop" => eng.nHigh = eng.nLow
        /\ eng.phase = "on" => eng.nHigh = eng.nLow + 1
        /\ eng.phase = "returned" =>
              /\ eng.nHigh = c
              /\ eng.nLow = c
              /\ eng.hiUs = c * on
              /\ 255 * on <= p * eng.dutyByte
              /\ p * eng.dutyByte < 255 * (on + 1)

\* C10 witness: a call at 3 kHz (a truncated period of 333 us) for 2 ms has
\* returned after 6 pairs.
C10_Witness ==
    /\ eng.phase = "returned"
    /\ eng.frequencyKhz = 3 /\ eng.durationMs = 2 /\ eng.dutyByte = 128
    /\ eng.nHigh = 6

\* The build-up burst of a step is running, or has just been called.
InBuildUp == pc = "pwm" /\ eng.ret = "gap"

\* The nominal build-up of the step being run.
Nominal == Table(Build_up, "Build_up")[i + 1]

\* C11 (as claimed): a call with dutyByte = 0 never writes the line HIGH,
\* and a call with dutyByte = 255 never writes it LOW.
C11_NoTransitionAtTheExtremes ==
    /\ eng.dutyByte = 0 => eng.nHigh = 0 /\ pin[eng.pinName] = "LOW"
    /\ eng.dutyByte = 255 => eng.nLow = 0

\* C12 (as claimed): the build-up duration passed to myPWM is the product
\* (Build_up[i]-35)*(1+j/1000) rounded to the nearest integer; for a
\* build-up of 200 it is 145, 165 and 185 at j = -120, 0 and 120.
C12_BuildUpRounded ==
    InBuildUp =>
        /\ eng.durationMs = ((Nominal - 35) * (1000 + j) + 500) \div 1000
        /\ (Nominal = 200 /\ j = -120) => eng.durationMs = 145
        /\ (Nominal = 200 /\ j = 0) => eng.durationMs = 165
        /\ (Nominal = 200 /\ j = 120) => eng.durationMs = 185

\* C12 (amended): the build-up duration passed to myPWM is the product
\* (Build_up[i]-35)*(1+j/1000) truncated to an integer; for a build-up of
\* 200 it is 145, 165 and 184 at j = -120, 0 and 120.
C12_BuildUpTruncated ==
    InBuildUp =>
        /\ 1000 * eng.durationMs <= (Nominal - 35) * (1000 + j)
        /\ (Nominal - 35) * (1000 + j) < 1000 * (eng.durationMs + 1)
        /\ (Nominal = 200 /\ j = -120) => eng.durationMs = 145
        /\ (Nominal = 200 /\ j = 0) => eng.durationMs = 165
        /\ (Nominal = 200 /\ j = 120) => eng.durationMs = 184

\* C12 witness: step 0 of the swing profile at the last offset of its sweep.
C12_Witness ==
    InBuildUp /\ Build_up = "swing" /\ i = 0 /\ j = 120 /\ eng.durationMs = 184

\* e is the frame of a warm-up burst that has just been called.
IsWarmUpCall(e) ==
    /\ e.durationMs = 35 /\ e.dutyByte = 95 /\ e.frequencyKhz = 20
    /\ e.pinName = "MOTOR_PWM" /\ e.ret = "buildup"
    /\ e.phase = "loop" /\ e.k = 0

\* C13: a step's sweep takes the offsets -120, -80, ..., 120 once each in
\* ascending order; each round is a warm-up burst of 35 ms on the motor
\* line, then a build-up burst on the motor line with duty PWM[i]*255/100,
\* then both solenoid lines HIGH for the dwell, then both LOW; myPWM is
\* called twice a round, and the cursor moves on only after offset 120.
C13_SweepRounds ==
    [][ /\ StepStarts => j' = -120 /\ i' = i /\ IsWarmUpCall(eng')
        /\ (pc = "pwm" /\ eng.ret = "buildup" /\ pc' # pc) => pc' = "buildup"
        /\ (pc = "buildup" /\ pc' # pc) =>
              /\ pc' = "pwm" /\ j' = j /\ i' = i
              /\ eng'.ret = "gap" /\ eng'.pinName = "MOTOR_PWM"
              /\ eng'.phase = "loop" /\ eng'.k = 0
              /\ eng'.dutyByte = (Table(PWM, "PWM")[i + 1] * 255) \div 100
        /\ (InBuildUp /\ pc' # pc) => pc' = "gap"
        /\ (pc = "gap" /\ pc' # pc) =>
              /\ pc' = "dwell" /\ j' = j /\ i' = i
              /\ pin'.SOL_ON_EN = "HIGH" /\ pin'.SOL_ON_PWM = "HIGH"
        /\ (pc = "dwell" /\ pc' # pc) =>
              /\ pin'.SOL_ON_EN = "LOW" /\ pin'.SOL_ON_PWM = "LOW"
              /\ j' = j + 40
              /\ IF j < 120
                 THEN pc' = "pwm" /\ i' = i /\ IsWarmUpCall(eng')
                 ELSE j = 120 /\ i' = i + 1 /\ pc' \in {"await", "top"}
        /\ (InSweep /\ pc # "settle") => j \in {-120, -80, -40, 0, 40, 80, 120}
      ]_vars

\* C13 witness: the last round of step 3 is in its dwell.
C13_Witness ==
    pc = "dwell" /\ j = 120 /\ i = 3

\* C14: the motor line and the solenoid lines are never HIGH together.
C14_MotorAndSolenoidApart ==
    pin.MOTOR_PWM = "HIGH" =>
        pin.SOL_ON_EN = "LOW" /\ pin.SOL_ON_PWM = "LOW"

\* C14 witness: the motor line is HIGH inside a build-up burst of the
\* sequencer.
C14_Witness ==
    InBuildUp /\ pin.MOTOR_PWM = "HIGH"

\* C14 witness of the other half: a solenoid line is HIGH.
C14_SolenoidHigh ==
    pin.SOL_ON_PWM = "HIGH" /\ pin.MOTOR_PWM = "LOW"

\* The selection state is the same after this step as before it, and no
\* read of HIGH is recorded in it.
SelectionFrozen ==
    /\ pump_mode' = pump_mode /\ Build_up' = Build_up /\ PWM' = PWM /\ i' = i
    /\ pressed' = pressed /\ everPressed' = everPressed

\* C15 (as claimed): through a step's sweep pump_mode, the bindings and the
\* step cursor do not change and the button is not read; all four are
\* written only by the gesture handling that precedes the sweep.
C15_SelectionWrittenOnlyByGesture ==
    [][ /\ (InSweep /\ InSweep') => SelectionFrozen
        /\ (pump_mode' # pump_mode \/ Build_up' # Build_up \/ PWM' # PWM
              \/ i' # i) => GestureTaken
      ]_vars

\* C15 (amended): through a step's sweep pump_mode, the bindings and the
\* step cursor do not change and the button is not read; pump_mode and the
\* bindings are written only by the gesture handling that precedes the
\* sweep, and the cursor only by it (i = 0 on a long-press) and by the for
\* loop itself: i += 1 once the sweep has ended, i = 0 when the loop starts.
C15_SelectionFrozenInSweep ==
    [][ /\ (InSweep /\ InSweep') => SelectionFrozen
        /\ (pump_mode' # pump_mode \/ Build_up' # Build_up \/ PWM' # PWM)
              => GestureTaken
        /\ i' # i =>
              \/ GestureTaken /\ i' = 0
              \/ pc = "dwell" /\ j = 120 /\ ~InSweep' /\ i' = i + 1
              \/ pc = "top" /\ pc' = "await" /\ i' = 0
      ]_vars

\* C15 witness: the button is held HIGH through the sweep of a step that
\* was started by a short-press.
C15_Witness ==
    pc = "dwell" /\ button = "stuckHigh" /\ gesture = "short" /\ j = 40

\* C16: wherever the sequencer waits for, measures or runs a step, the
\* cursor is one of 0..17.
C16_CursorInRange ==
    (InGate \/ InSweep) => i \in 0 .. 17

\* C16 witness: the last step reads its parameters.
C16_Witness ==
    pc = "buildup" /\ i = 17

\* C16 witness of the reset: step 0 reads its parameters right after a
\* long-press.
C16_ResetAtLastStep ==
    pc = "buildup" /\ i = 0 /\ gesture = "long" /\ lastRun = 0 /\ j = -120
        /\ pump_mode = 0

\* C17: in a call within the input contract onTime and offTime are not
\* negative and add up to periodUs, and the time commanded in all,
\* cycles*periodUs, falls short of durationMs by less than one period.
C17_TimesAndUnderRun ==
    LET p == 1000 \div eng.frequencyKhz
        total == eng.hiUs + eng.loUs
    IN  /\ eng.onTime >= 0 /\ eng.offTime >= 0
        /\ eng.onTime + eng.offTime = p
        /\ eng.hiUs = eng.nHigh * eng.onTime
        /\ eng.loUs = eng.nLow * eng.offTime
        /\ eng.phase = "returned" =>
              /\ total = eng.nLow * p
              /\ total <= eng.durationMs * 1000
              /\ eng.durationMs * 1000 - p < total

\* C17 witness: 1 ms at 3 kHz has returned after 999 us.
C17_Witness ==
    /\ eng.phase = "returned"
    /\ eng.frequencyKhz = 3 /\ eng.durationMs = 1 /\ eng.dutyByte = 255
    /\ eng.hiUs + eng.loUs = 999

\* C18: every call of myPWM the sketch makes has frequencyKhz = 20 (a
\* period of 50 us), a duty in 0..255 and a duration that is not negative;
\* so have the arguments made from every entry of both profiles at every
\* offset of the sweep (a fact of the tables, evaluated once, at start-up).
C18_CallsWithinContract ==
    /\ eng.phase # "idle" =>
          /\ eng.frequencyKhz = 20 /\ eng.periodUs = 50
          /\ eng.dutyByte \in 0 .. 255
          /\ eng.durationMs >= 0
    /\ pc = "boot" =>
          \A name \in {"swing", "solo"}, n \in 1 .. 18 :
             /\ DutyByte(Table(name, "PWM")[n]) \in 0 .. 255
             /\ \A jit \in {-120, -80, -40, 0, 40, 80, 120} :
                   AdjustedBuildUp(Table(name, "Build_up")[n], jit) >= 0

\* C18 witness: the last step of the solo profile at the last offset.
C18_Witness ==
    InBuildUp /\ Build_up = "solo" /\ i = 17 /\ j = 120

\* C19: wherever a step is run, Build_up and PWM are bound to the tables
\* that pump_mode selects, although the globals start with pump_mode = 1
\* and the swing tables bound.
C19_TablesFollowPumpMode ==
    /\ InSweep => Build_up = ProfileOf(pump_mode) /\ PWM = ProfileOf(pump_mode)
    /\ pc = "boot" => pump_mode = 1 /\ Build_up = "swing" /\ PWM = "swing"

\* C19 witness: step 0 reads the solo tables on a short-press taken with
\* pump_mode = 1.
C19_Witness ==
    /\ pc = "buildup" /\ gesture = "short" /\ lastRun = 0 /\ j = -120
    /\ pump_mode = 1 /\ Build_up = "solo" /\ PWM = "solo"

\* C20: in a test-bench build pause is toggled once by each press, on the
\* read of HIGH at the top of the loop, and not again while the button is
\* held; the motor line is HIGH only with pause = 0 and is LOW after a turn
\* of the loop taken with pause = 1; the solenoid lines, pump_mode and the
\* bindings are never written.
C20_TestBench ==
    [][ RPM_TestBench_inPWMmode = 1 =>
          /\ pause' # pause => pc = "top" /\ pc' = "bench_hold"
          /\ (pc = "top" /\ pc' = "bench_hold") => pause' = 1 - pause
          /\ pc = "bench_hold" => pause' = pause
          /\ pc' = "bench_hold" => pc \in {"top", "bench_hold"}
          /\ pin.MOTOR_PWM = "HIGH" => pause = 0
          /\ pin'.MOTOR_PWM = "HIGH" => pause' = 0
          /\ (pause = 1 /\ pc' = "top") => pin'.MOTOR_PWM = "LOW"
          /\ (pause' = 1 /\ pc' # "bench_hold") => pc' \in {"boot", "loop", "top"}
          /\ pin'.SOL_ON_EN = "LOW" /\ pin'.SOL_ON_PWM = "LOW"
          /\ pump_mode' = pump_mode /\ Build_up' = Build_up /\ PWM' = PWM
      ]_vars

\* C20 witness: the button is held at its second press, after a burst.
C20_Witness ==
    /\ RPM_TestBench_inPWMmode = 1
    /\ pc = "bench_hold" /\ pause = 0 /\ eng.phase = "returned"

\* C20 witness of the pause: a turn of the loop ends with the motor held LOW.
C20_Paused ==
    /\ RPM_TestBench_inPWMmode = 1
    /\ pc = "top" /\ pause = 1 /\ eng.phase = "returned"

====
